---- MODULE Spec2Model ----
(***************************************************************************)
(* Model of the WhatsApp export parser of mimic.ai (src/lib/chatParser.ts) *)
(* and of the call made to it by processFileUpload, with the archive       *)
(* functions of src/lib/fileUtils.ts and the two handlers that receive a   *)
(* file: FileUpload.handleFileSelect and Home.handleDrop.                  *)
(*                                                                         *)
(* A string is a sequence of characters.  A character is a one-character   *)
(* TLA+ string; the characters that have no printable form are written     *)
(* "U+XXXX".  Dates are the calendar fields of the local-time Date object  *)
(* (no daylight-saving gaps: the time zone is taken to have a fixed        *)
(* offset).                                                                *)
(***************************************************************************)
EXTENDS Integers, Sequences, FiniteSets, TLC

(***************************************************************************)
(* Characters                                                              *)
(***************************************************************************)

\* A string literal as a sequence of characters.
Chars(s) == [i \in 1..Len(s) |-> SubSeq(s, i, i)]

\* The character class [\u200E\u200F\u202A-\u202E\u2066-\u2069].
InvisibleChars ==
  {"U+200E", "U+200F", "U+202A", "U+202B", "U+202C", "U+202D", "U+202E",
   "U+2066", "U+2067", "U+2068", "U+2069"}

\* The characters String.prototype.trim removes and \s matches (those the
\* model's inputs use).
WhiteSpace == {" ", "\t", "\n", "\r", "U+00A0", "U+202F", "U+FEFF"}

\* The characters the regular expression's . does not match.
LineTerminators == {"\n", "\r", "U+2028", "U+2029"}

Digits == Chars("0123456789")

IsDigit(c) == \E i \in 1..10 : Digits[i] = c

DigitVal(c) == (CHOOSE i \in 1..10 : Digits[i] = c) - 1

AsciiPrintable ==
  Chars(" !") \o << "\"" >> \o Chars("#$%&'()*+,-./0123456789:;<=>?@")
  \o Chars("ABCDEFGHIJKLMNOPQRSTUVWXYZ[") \o << "\\" >>
  \o Chars("]^_") \o << "U+0060" >> \o Chars("abcdefghijklmnopqrstuvwxyz{|}~")

\* The UTF-16 code unit of a character (the order Array.prototype.sort uses).
CodeUnit(c) ==
  IF \E i \in 1..Len(AsciiPrintable) : AsciiPrintable[i] = c
  THEN 31 + (CHOOSE i \in 1..Len(AsciiPrintable) : AsciiPrintable[i] = c)
  ELSE CASE c = "\t" -> 9
         [] c = "\n" -> 10
         [] c = "\r" -> 13
         [] c = "U+00A0" -> 160
         [] c = "U+200E" -> 8206
         [] c = "U+200F" -> 8207
         [] c = "U+2028" -> 8232
         [] c = "U+2029" -> 8233
         [] c = "U+202A" -> 8234
         [] c = "U+202B" -> 8235
         [] c = "U+202C" -> 8236
         [] c = "U+202D" -> 8237
         [] c = "U+202E" -> 8238
         [] c = "U+202F" -> 8239
         [] c = "U+2066" -> 8294
         [] c = "U+2067" -> 8295
         [] c = "U+2068" -> 8296
         [] c = "U+2069" -> 8297
         [] c = "U+FEFF" -> 65279

LowerLetters == Chars("abcdefghijklmnopqrstuvwxyz")

UpperLetters == Chars("ABCDEFGHIJKLMNOPQRSTUVWXYZ")

\* Case folding of the i flag and of toUpperCase, on one character.
ToUpperChar(c) ==
  IF \E i \in 1..26 : LowerLetters[i] = c
  THEN UpperLetters[CHOOSE i \in 1..26 : LowerLetters[i] = c]
  ELSE c

ToUpperCase(s) == [i \in 1..Len(s) |-> ToUpperChar(s[i])]

(***************************************************************************)
(* String operations                                                       *)
(***************************************************************************)

\* String.prototype.trim.
Trim(s) ==
  IF \A i \in 1..Len(s) : s[i] \in WhiteSpace
  THEN << >>
  ELSE LET a == CHOOSE i \in 1..Len(s) :
                  /\ s[i] \notin WhiteSpace
                  /\ \A j \in 1..(i - 1) : s[j] \in WhiteSpace
           b == CHOOSE i \in 1..Len(s) :
                  /\ s[i] \notin WhiteSpace
                  /\ \A j \in (i + 1)..Len(s) : s[j] \in WhiteSpace
       IN  SubSeq(s, a, b)

\* The length of the longest run of characters of class cls that starts at
\* position p of s.
Run(s, p, cls) ==
  IF p > Len(s)
  THEN 0
  ELSE CHOOSE n \in 0..(Len(s) - p + 1) :
         /\ \A j \in p..(p + n - 1) : s[j] \in cls
         /\ (p + n > Len(s) \/ s[p + n] \notin cls)

\* The character at position p, "" past the end.
At(s, p) == IF p \in 1..Len(s) THEN s[p] ELSE ""

\* s.replace(/[...]/g, '') for a character class.
RemoveAll(s, cls) == SelectSeq(s, LAMBDA c : c \notin cls)

\* s.replace(/^[\u200E\u200F\u202A-\u202E\u2066-\u2069]+/, '')
StripLeadingInvisible(s) == SubSeq(s, Run(s, 1, InvisibleChars) + 1, Len(s))

\* text.match(pattern) for a literal pattern under the i flag.
ContainsIgnoreCase(s, p) ==
  LET us == ToUpperCase(s)
      up == ToUpperCase(p)
  IN  \E i \in 0..(Len(s) - Len(p)) : SubSeq(us, i + 1, i + Len(p)) = up

RECURSIVE ParseInt(_)
\* parseInt(ds, 10) of a string of decimal digits.
ParseInt(ds) ==
  IF ds = << >>
  THEN 0
  ELSE 10 * ParseInt(SubSeq(ds, 1, Len(ds) - 1)) + DigitVal(ds[Len(ds)])

RECURSIVE Split(_)
\* chatText.split('\n')
Split(s) ==
  IF \A i \in 1..Len(s) : s[i] # "\n"
  THEN << s >>
  ELSE LET k == CHOOSE i \in 1..Len(s) :
                  s[i] = "\n" /\ \A j \in 1..(i - 1) : s[j] # "\n"
       IN  << SubSeq(s, 1, k - 1) >> \o Split(SubSeq(s, k + 1, Len(s)))

\* s.replace(',', ''): only the first occurrence is removed.
RemoveFirst(s, c) ==
  IF \A i \in 1..Len(s) : s[i] # c
  THEN s
  ELSE LET k == CHOOSE i \in 1..Len(s) :
                  s[i] = c /\ \A j \in 1..(i - 1) : s[j] # c
       IN  SubSeq(s, 1, k - 1) \o SubSeq(s, k + 1, Len(s))

DigitChars == {Digits[i] : i \in 1..10}

\* The characters the regular expression's . matches.
Dot(c) == c \notin LineTerminators

(***************************************************************************)
(* The header pattern                                                      *)
(*   /^\[(\d{1,2}\/\d{1,2}\/\d{4}),\s*(\d{1,2}:\d{2}:\d{2}\s*(?:AM|PM))\]   *)
(*     \s*(.+?):\s*(.+)$/                                                  *)
(***************************************************************************)

NoMatch == [matched |-> FALSE]

\* The start of the text group when the sender's colon is at position c:
\* \s* takes the longest run of white space that still leaves .+ at least
\* one character, and .+ must reach the end of the line.  0 when the colon
\* cannot end the sender.
TextStart(s, c) ==
  LET w == Run(s, c + 1, WhiteSpace)
      ks == {k \in 0..w : /\ c + 1 + k <= Len(s)
                          /\ \A j \in (c + 1 + k)..Len(s) : Dot(s[j])}
  IN  IF ks = {}
      THEN 0
      ELSE c + 1 + (CHOOSE k \in ks : \A k2 \in ks : k2 <= k)

\* The colons that can end a sender starting at position start: .+? is at
\* least one character, none of them a line terminator.
SenderEnds(s, start) ==
  {c \in (start + 1)..Len(s) :
     /\ s[c] = ":"
     /\ \A j \in start..(c - 1) : Dot(s[j])
     /\ TextStart(s, c) # 0}

\* The match of the part after the closing bracket, which is at position
\* close: the greedy \s* gives back white space only when no colon fits, and
\* the lazy .+? stops at the first colon that fits.
MatchTail(s, close) ==
  LET w == Run(s, close + 1, WhiteSpace)
      ks == {k \in 0..w : SenderEnds(s, close + 1 + k) # {}}
  IN  IF ks = {}
      THEN NoMatch
      ELSE LET k == CHOOSE k1 \in ks : \A k2 \in ks : k2 <= k1
               start == close + 1 + k
               ends == SenderEnds(s, start)
               c == CHOOSE c1 \in ends : \A c2 \in ends : c1 <= c2
           IN  [matched |-> TRUE,
                sender |-> SubSeq(s, start, c - 1),
                text |-> SubSeq(s, TextStart(s, c), Len(s))]

\* One item of a pattern: between min and max characters of class cls, as
\* many as there are (max < 0: any number).  Each item of the patterns below
\* is followed by a character outside its class, so the longest run is the
\* only one a match can use.
Item(cls, min, max) == [cls |-> cls, min |-> min, max |-> max]

Lit(c) == Item({c}, 1, 1)

RECURSIVE Scan(_, _, _)
\* The positions at which the items start when they match s one after the
\* other from position p on, followed by the position after the last item;
\* << >> when they do not match.
Scan(s, p, items) ==
  IF items = << >>
  THEN << p >>
  ELSE LET it == Head(items)
           n0 == Run(s, p, it.cls)
           n == IF it.max >= 0 /\ n0 > it.max THEN it.max ELSE n0
           rest == Scan(s, p + n, Tail(items))
       IN  IF n < it.min \/ rest = << >> THEN << >> ELSE << p >> \o rest

\* The prefix with the AM/PM marker left optional.
HeaderPrefixMarkerOptional ==
  << Lit("["), Item(DigitChars, 1, 2), Lit("/"), Item(DigitChars, 1, 2),
     Lit("/"), Item(DigitChars, 4, 4), Lit(","), Item(WhiteSpace, 0, -1),
     Item(DigitChars, 1, 2), Lit(":"), Item(DigitChars, 2, 2), Lit(":"),
     Item(DigitChars, 2, 2), Item(WhiteSpace, 0, -1), Item({"A", "P"}, 0, 1),
     Item({"M"}, 0, 1), Lit("]") >>

\* ^\[(\d{1,2}\/\d{1,2}\/\d{4}),\s*(\d{1,2}:\d{2}:\d{2}\s*(?:AM|PM))\]
HeaderPrefix ==
  << Lit("["), Item(DigitChars, 1, 2), Lit("/"), Item(DigitChars, 1, 2),
     Lit("/"), Item(DigitChars, 4, 4), Lit(","), Item(WhiteSpace, 0, -1),
     Item(DigitChars, 1, 2), Lit(":"), Item(DigitChars, 2, 2), Lit(":"),
     Item(DigitChars, 2, 2), Item(WhiteSpace, 0, -1), Item({"A", "P"}, 1, 1),
     Lit("M"), Lit("]") >>

\* The captured groups, from the positions of the prefix and the match of
\* the rest of the line.
HeaderGroups(s, pos, tail) ==
  IF ~tail.matched
  THEN NoMatch
  ELSE [matched |-> TRUE,
        dateStr |-> SubSeq(s, pos[2], pos[7] - 1),
        timeStr |-> SubSeq(s, pos[9], pos[17] - 1),
        sender |-> tail.sender,
        text |-> tail.text]

MatchAfterPrefix(s, pos) ==
  IF pos = << >> THEN NoMatch ELSE HeaderGroups(s, pos, MatchTail(s, pos[17]))

\* cleanedLine.match(header pattern): the four captured groups, or no match.
MatchHeader(s) == MatchAfterPrefix(s, Scan(s, 1, HeaderPrefix))

(***************************************************************************)
(* Dates                                                                   *)
(***************************************************************************)

\* Days from 1970-01-01 to the given day of the proleptic Gregorian
\* calendar; month is 1..12.
DaysFromCivil(year, month, day) ==
  LET y == IF month <= 2 THEN year - 1 ELSE year
      era == y \div 400
      yoe == y - era * 400
      mp == IF month > 2 THEN month - 3 ELSE month + 9
      doy == (153 * mp + 2) \div 5 + day - 1
      doe == yoe * 365 + yoe \div 4 - yoe \div 100 + doy
  IN  era * 146097 + doe - 719468

\* The calendar day that is z days after 1970-01-01; month is 1..12.
CivilFromDays(z) ==
  LET z1 == z + 719468
      era == z1 \div 146097
      doe == z1 - era * 146097
      yoe == (doe - doe \div 1460 + doe \div 36524 - doe \div 146096) \div 365
      doy == doe - (365 * yoe + yoe \div 4 - yoe \div 100)
      mp == (5 * doy + 2) \div 153
      d == doy - (153 * mp + 2) \div 5 + 1
      m == IF mp < 10 THEN mp + 3 ELSE mp - 9
  IN  [year |-> yoe + era * 400 + (IF m <= 2 THEN 1 ELSE 0),
       month |-> m, day |-> d]

\* new Date(year, month, day, hour, minute, second): a two-digit year is in
\* the 1900s, and every field that is out of range carries into the next.
NewDate(year, month, day, hour, minute, second) ==
  LET yr == IF year \in 0..99 THEN 1900 + year ELSE year
      ym == yr + month \div 12
      mn == month % 12
      time == hour * 3600 + minute * 60 + second
      days == DaysFromCivil(ym, mn + 1, 1) + (day - 1) + time \div 86400
      tod == time % 86400
      civil == CivilFromDays(days)
  IN  [year |-> civil.year, month |-> civil.month - 1, date |-> civil.day,
       hours |-> tod \div 3600, minutes |-> (tod % 3600) \div 60,
       seconds |-> tod % 60]

\* 12 added to every PM hour, 12 PM included.
To24HourAlwaysAdd(hour, period) ==
  IF ToUpperCase(period) = Chars("PM")
  THEN hour + 12
  ELSE IF ToUpperCase(period) = Chars("AM") /\ hour = 12 THEN 0 ELSE hour

\* The two adjustments of the hour by the AM/PM marker.
To24Hour(hour, period) ==
  LET h1 == IF ToUpperCase(period) = Chars("PM") /\ hour # 12
            THEN hour + 12 ELSE hour
  IN  IF ToUpperCase(period) = Chars("AM") /\ h1 = 12 THEN 0 ELSE h1

\* ^(\d{1,2})\/(\d{1,2})\/(\d{4})\s+(\d{1,2}):(\d{2}):(\d{2})\s?
DatePattern ==
  << Item(DigitChars, 1, 2), Lit("/"), Item(DigitChars, 1, 2), Lit("/"),
     Item(DigitChars, 4, 4), Item(WhiteSpace, 1, -1), Item(DigitChars, 1, 2),
     Lit(":"), Item(DigitChars, 2, 2), Lit(":"), Item(DigitChars, 2, 2),
     Item(WhiteSpace, 0, 1) >>

\* The Date of the matched groups; period is what follows the seconds and
\* the optional white space: (AM|PM)?$ under the i flag.
DateOfGroups(cleaned, pos, period) ==
  IF period # << >> /\ ToUpperCase(period) \notin {Chars("AM"), Chars("PM")}
  THEN [ok |-> FALSE]
  ELSE [ok |-> TRUE,
        date |-> NewDate(ParseInt(SubSeq(cleaned, pos[5], pos[6] - 1)),
                         ParseInt(SubSeq(cleaned, pos[3], pos[4] - 1)) - 1,
                         ParseInt(SubSeq(cleaned, pos[1], pos[2] - 1)),
                         To24Hour(ParseInt(SubSeq(cleaned, pos[7], pos[8] - 1)),
                                  period),
                         ParseInt(SubSeq(cleaned, pos[9], pos[10] - 1)),
                         ParseInt(SubSeq(cleaned, pos[11], pos[12] - 1)))]

MatchDate(cleaned, pos) ==
  IF pos = << >>
  THEN [ok |-> FALSE]
  ELSE DateOfGroups(cleaned, pos, SubSeq(cleaned, pos[13], Len(cleaned)))

\* The string parseDate matches: without invisible characters and narrow
\* spaces, without its first comma, trimmed.
CleanDateTime(dateTimeStr) ==
  Trim(RemoveFirst(RemoveAll(dateTimeStr, InvisibleChars \cup {"U+202F"}), ","))

MatchCleaned(cleaned) == MatchDate(cleaned, Scan(cleaned, 1, DatePattern))

\* parseDate: ok is FALSE when it throws.
ParseDate(dateTimeStr) == MatchCleaned(CleanDateTime(dateTimeStr))

(***************************************************************************)
(* Notices and senders                                                     *)
(***************************************************************************)

encryptionWarningPatterns ==
  << Chars("Messages and calls are end-to-end encrypted"),
     Chars("end-to-end encrypted"),
     Chars("Only people in this chat can read") >>

isEncryptionWarning(text) ==
  \E i \in 1..Len(encryptionWarningPatterns) :
    ContainsIgnoreCase(text, encryptionWarningPatterns[i])

\* a < b in the order of the default sort: by UTF-16 code units.
StringLess(a, b) ==
  \E k \in 1..(Len(a) + 1) :
    /\ k <= Len(b)
    /\ \A j \in 1..(k - 1) : j <= Len(a) /\ a[j] = b[j]
    /\ (k = Len(a) + 1 \/ CodeUnit(a[k]) < CodeUnit(b[k]))

RECURSIVE Distinct(_)
\* Array.from(new Set(xs)): the distinct values, in order of first occurrence.
Distinct(xs) ==
  IF xs = << >>
  THEN << >>
  ELSE LET init == Distinct(SubSeq(xs, 1, Len(xs) - 1))
           last == xs[Len(xs)]
       IN  IF \E i \in 1..Len(init) : init[i] = last
           THEN init
           ELSE Append(init, last)

\* The array left unsorted.
UnsortedStrings(xs) == xs

\* xs.sort() on distinct strings.
SortStrings(xs) ==
  [i \in 1..Len(xs) |->
     CHOOSE x \in {xs[j] : j \in 1..Len(xs)} :
       Cardinality({j \in 1..Len(xs) : StringLess(xs[j], x)}) = i - 1]

extractSenders(messages) ==
  SortStrings(Distinct([i \in 1..Len(messages) |-> messages[i].sender]))

\* The message is from the sender who speaks first.
IsFromFirstSpeaker(msg, parsedMessages, senders) ==
  msg.sender = parsedMessages[1].sender

\* msg.sender === senders[0]; senders[0] of an empty array is undefined.
IsFromPrimary(msg, parsedMessages, senders) ==
  senders # << >> /\ msg.sender = senders[1]

\* chatMessages of processFileUpload: the parsed messages in chat format;
\* idx stands for the identifier, which is made of the chat and the index.
ChatMessages(parsedMessages, senders) ==
  [n \in 1..Len(parsedMessages) |->
     [idx |-> n - 1,
      text |-> parsedMessages[n].text,
      sender |-> parsedMessages[n].sender,
      isFromPrimary |-> IsFromPrimary(parsedMessages[n], parsedMessages, senders),
      timestamp |-> parsedMessages[n].date]]

(***************************************************************************)
(* File names and archives (src/lib/fileUtils.ts)                          *)
(*                                                                         *)
(* An archive is the listing zipData.files that JSZip's loadAsync gives:   *)
(* entries with distinct names in the order of the archive, every          *)
(* directory entry with a name that ends in a slash.  The content of an    *)
(* entry is the text async('text') decodes.                                *)
(***************************************************************************)

\* String.prototype.endsWith
EndsWith(s, suffix) ==
  /\ Len(s) >= Len(suffix)
  /\ SubSeq(s, Len(s) - Len(suffix) + 1, Len(s)) = suffix

\* zipFileName.replace(/\.zip$/i, '')
RemoveZipExtension(zipFileName) ==
  IF /\ Len(zipFileName) >= 4
     /\ ToUpperCase(SubSeq(zipFileName, Len(zipFileName) - 3, Len(zipFileName)))
          = Chars(".ZIP")
  THEN SubSeq(zipFileName, 1, Len(zipFileName) - 4)
  ELSE zipFileName

WhatsAppPrefix == Chars("WhatsApp Chat - ")

\* nameWithoutExt.match(/^WhatsApp Chat - (.+)$/i): the prefix in any letter
\* case, then at least one character, none of them a line terminator.
MatchesWhatsAppName(name) ==
  /\ Len(name) > Len(WhatsAppPrefix)
  /\ ToUpperCase(SubSeq(name, 1, Len(WhatsAppPrefix)))
       = ToUpperCase(WhatsAppPrefix)
  /\ \A i \in (Len(WhatsAppPrefix) + 1)..Len(name) :
       name[i] \notin LineTerminators

\* The captured name returned as it is written.
PersonNameUntrimmed(nameWithoutExt) ==
  IF MatchesWhatsAppName(nameWithoutExt)
  THEN SubSeq(nameWithoutExt, Len(WhatsAppPrefix) + 1, Len(nameWithoutExt))
  ELSE nameWithoutExt

\* The match and the fallback of extractPersonNameFromZip.
PersonName(nameWithoutExt) ==
  IF MatchesWhatsAppName(nameWithoutExt)
  THEN Trim(SubSeq(nameWithoutExt, Len(WhatsAppPrefix) + 1,
                   Len(nameWithoutExt)))
  ELSE nameWithoutExt

extractPersonNameFromZip(zipFileName) ==
  PersonName(RemoveZipExtension(zipFileName))

\* fileName.endsWith('.txt') && !zipData.files[fileName].dir
IsTxtEntry(entry) == EndsWith(entry.name, Chars(".txt")) /\ ~entry.dir

RECURSIVE Reversed(_)
Reversed(xs) ==
  IF xs = << >> THEN << >> ELSE Append(Reversed(Tail(xs)), Head(xs))

\* The text entries with the last of the archive first.
TxtFilesLastFirst(files) == Reversed(SelectSeq(files, IsTxtEntry))

\* txtFiles: the entries of the listing that pass the filter, in its order.
TxtFiles(files) == SelectSeq(files, IsTxtEntry)

RECURSIVE JoinNames(_)
\* allFiles.join(', ')
JoinNames(files) ==
  IF files = << >>
  THEN << >>
  ELSE IF Len(files) = 1
       THEN files[1].name
       ELSE files[1].name \o Chars(", ") \o JoinNames(Tail(files))

Failure(message) == [ok |-> FALSE, message |-> message]

\* The content and the name of the first text entry, or the error for an
\* empty content.
ReadTxtFile(txtFile) ==
  IF Len(txtFile.content) = 0
  THEN Failure(Chars("TXT file appears to be empty"))
  ELSE [ok |-> TRUE, content |-> txtFile.content, fileName |-> txtFile.name]

\* extractTxtFromZip after loadAsync, on the listing of the archive.
ExtractFromListing(files) ==
  IF Len(TxtFiles(files)) = 0
  THEN Failure(Chars("No .txt file found in the ZIP archive. Files found: ")
               \o JoinNames(files))
  ELSE ReadTxtFile(TxtFiles(files)[1])

\* extractTxtFromZip: loadAsync rejects a file that is no archive.
extractTxtFromZip(zipFile) ==
  IF ~zipFile.isArchive
  THEN Failure(Chars("Can't find end of central directory : is this a zip file ?"))
  ELSE ExtractFromListing(zipFile.files)

(***************************************************************************)
(* parseWhatsAppChat                                                       *)
(*                                                                         *)
(* heap holds the ParsedMessage objects in the order they are created;     *)
(* messages and currentMessage hold references (indices) into it, so that  *)
(* an object pushed while it is still the current message is the same      *)
(* object in both places.                                                  *)
(***************************************************************************)

VARIABLES chatText, pc, lines, lineIdx, messages, currentMessage, heap,
          linesProcessed, linesMatched, encryptionWarningsFiltered,
          result, senders, chatMessages, parses, earlier,
          files, uiPc, alertMessage, uploaded, pendingFile, showConfirmModal,
          chats, chatData, activeChatId, internalPendingFile,
          internalShowConfirmModal, now, beforeDrop

vars == << chatText, pc, lines, lineIdx, messages, currentMessage, heap,
           linesProcessed, linesMatched, encryptionWarningsFiltered,
           result, senders, chatMessages, parses, earlier,
           files, uiPc, alertMessage, uploaded, pendingFile,
           showConfirmModal, chats, chatData, activeChatId,
           internalPendingFile, internalShowConfirmModal, now, beforeDrop >>

\* The state of ChatContainer, the clock, and the chats as they were when
\* the last files were dropped.
chatVars ==
  << chats, chatData, activeChatId, internalPendingFile,
     internalShowConfirmModal, now, beforeDrop >>

\* The state of the page and of the upload button.
fileVars ==
  << files, uiPc, alertMessage, uploaded, pendingFile, showConfirmModal,
     chatVars >>

\* The state of the parser and of its caller.
parserVars ==
  << chatText, pc, lines, lineIdx, messages, currentMessage, heap,
     linesProcessed, linesMatched, encryptionWarningsFiltered,
     result, senders, chatMessages, parses, earlier >>

\* currentMessage = null
Null == 0

\* !chatText || chatText.trim().length === 0
IsEmptyChatText(text) == Len(text) = 0 \/ Len(Trim(text)) = 0

\* An empty input raising an error.
ThrowOnEmpty == [threw |-> TRUE, messages |-> << >>]

\* An empty input is answered with return [].
ReturnOnEmpty == [threw |-> FALSE, messages |-> << >>]

\* The locals of a call before the first line.
InitialLocals ==
  [messages |-> << >>, currentMessage |-> Null, heap |-> << >>,
   linesProcessed |-> 0, linesMatched |-> 0,
   encryptionWarningsFiltered |-> 0]

\* The leading invisible characters left in place.
KeepLeadingInvisible(line) == Trim(line)

\* cleanedLine: the line trimmed, then without its leading invisible
\* characters.
CleanLine(line) == StripLeadingInvisible(Trim(line))

\* sender.trim()
CleanSender(sender) == Trim(sender)

\* cleanText: the captured text without invisible characters, trimmed.
CleanText(text) == Trim(RemoveAll(text, InvisibleChars))

\* The date and time string handed to parseDate.
DateTimeStr(m) == m.dateStr \o << " " >> \o Trim(m.timeStr)

\* The branch a line that matches the header pattern takes.
HeaderBranch(m) ==
  IF ~ParseDate(DateTimeStr(m)).ok
  THEN "dateError"
  ELSE IF isEncryptionWarning(CleanText(m.text)) THEN "notice" ELSE "open"

\* The branch a non-blank line takes, m being the match of cleanedLine.
CleanedBranch(st, cleanedLine, m) ==
  IF m.matched
  THEN HeaderBranch(m)
  ELSE IF /\ st.currentMessage # Null
          /\ cleanedLine # << >>
          /\ Trim(RemoveAll(cleanedLine, InvisibleChars)) # << >>
       THEN "continuation"
       ELSE "discard"

NonBlankBranch(st, cleanedLine) ==
  CleanedBranch(st, cleanedLine, MatchHeader(cleanedLine))

\* The branch of the loop body a line takes.
LineBranch(st, line) ==
  IF Trim(line) = << >> THEN "blank" ELSE NonBlankBranch(st, CleanLine(line))

\* The object with the cleaned text stored even when it is empty.
NewMessageNoFallback(m, cleanText) ==
  [date |-> ParseDate(DateTimeStr(m)).date,
   sender |-> CleanSender(m.sender),
   text |-> cleanText]

\* The object a header line creates.
NewMessage(m, cleanText) ==
  [date |-> ParseDate(DateTimeStr(m)).date,
   sender |-> CleanSender(m.sender),
   text |-> IF cleanText # << >> THEN cleanText ELSE Trim(m.text)]

\* linesMatched++ and the push of the previous message.
PushPrevious(st) ==
  [st EXCEPT !.linesMatched = @ + 1,
             !.messages = IF st.currentMessage # Null
                          THEN Append(@, st.currentMessage)
                          ELSE @]

\* A blank line closing the current message.
OnBlankLineCloses(st) ==
  [st EXCEPT !.messages = IF st.currentMessage # Null
                          THEN Append(@, st.currentMessage)
                          ELSE @,
             !.currentMessage = Null]

\* if (!line.trim()) continue: nothing but the line count changes.
OnBlankLine(st) == st

\* A line that is no header and has no message to go to opening a message
\* of its own, with no sender and the date of the epoch.
OnDiscardedLineOpens(st, cleanedLine) ==
  [st EXCEPT
     !.heap = Append(@, [date |-> [year |-> 1970, month |-> 0, date |-> 1,
                                   hours |-> 0, minutes |-> 0, seconds |-> 0],
                         sender |-> << >>,
                         text |-> cleanedLine]),
     !.currentMessage = Len(st.heap) + 1]

\* Neither branch of the if is taken, or only the one that logs the line:
\* nothing but the line count changes.
OnDiscardedLine(st, cleanedLine) == st

\* The body of the loop on a line that takes the given branch; st has
\* linesProcessed already incremented.
Body(st, branch, cleanedLine, m) ==
  CASE branch = "blank" -> OnBlankLine(st)
    [] branch = "dateError" -> PushPrevious(st)
    [] branch = "notice" ->
         [PushPrevious(st) EXCEPT !.encryptionWarningsFiltered = @ + 1]
    [] branch = "open" ->
         [PushPrevious(st) EXCEPT
            !.heap = Append(@, NewMessage(m, CleanText(m.text))),
            !.currentMessage = Len(st.heap) + 1]
    [] branch = "continuation" ->
         [st EXCEPT !.heap[st.currentMessage].text =
                      @ \o << "\n" >>
                        \o Trim(RemoveAll(cleanedLine, InvisibleChars))]
    [] branch = "discard" -> OnDiscardedLine(st, cleanedLine)

BodyOnCleaned(st, branch, cleanedLine) ==
  Body(st, branch, cleanedLine,
       IF branch = "blank" THEN NoMatch ELSE MatchHeader(cleanedLine))

\* One iteration of the loop over the lines.
ProcessLine(st, line) ==
  BodyOnCleaned([st EXCEPT !.linesProcessed = @ + 1], LineBranch(st, line),
                CleanLine(line))

\* The statements after the loop.
Flush(st) ==
  IF st.currentMessage # Null
  THEN IF ~isEncryptionWarning(st.heap[st.currentMessage].text)
       THEN [st EXCEPT !.messages = Append(@, st.currentMessage)]
       ELSE [st EXCEPT !.encryptionWarningsFiltered = @ + 1]
  ELSE st

\* The day and the second of the day of a date, as numbers.
DayKey(d) == (d.year * 12 + d.month) * 31 + d.date

SecondKey(d) == (d.hours * 60 + d.minutes) * 60 + d.seconds

\* a.getTime() < b.getTime()
DateBefore(a, b) ==
  \/ DayKey(a) < DayKey(b)
  \/ DayKey(a) = DayKey(b) /\ SecondKey(a) < SecondKey(b)

\* The place of the i-th reference when the objects are ordered by date.
DateRank(st, i) ==
  Cardinality({j \in 1..Len(st.messages) :
                 \/ DateBefore(st.heap[st.messages[j]].date,
                               st.heap[st.messages[i]].date)
                 \/ /\ ~DateBefore(st.heap[st.messages[i]].date,
                                   st.heap[st.messages[j]].date)
                    /\ j <= i})

\* The returned array sorted by date.
ReturnedSortedByDate(st) ==
  [n \in 1..Len(st.messages) |->
     st.heap[st.messages[CHOOSE i \in 1..Len(st.messages) : DateRank(st, i) = n]]]

\* The returned array: the objects the references of messages point to.
Returned(st) == [i \in 1..Len(st.messages) |-> st.heap[st.messages[i]]]

RECURSIVE RunLines(_, _, _)
\* The loop from line i on.
RunLines(st, ls, i) ==
  IF i > Len(ls) THEN st ELSE RunLines(ProcessLine(st, ls[i]), ls, i + 1)

\* The locals of a call on a non-empty text when it returns.
FinalLocals(text) == Flush(RunLines(InitialLocals, Split(text), 1))

\* parseWhatsAppChat as a function of its argument.
parseWhatsAppChat(text) ==
  IF IsEmptyChatText(text)
  THEN ReturnOnEmpty
  ELSE [threw |-> FALSE, messages |-> Returned(FinalLocals(text))]

Locals ==
  [messages |-> messages, currentMessage |-> currentMessage, heap |-> heap,
   linesProcessed |-> linesProcessed, linesMatched |-> linesMatched,
   encryptionWarningsFiltered |-> encryptionWarningsFiltered]

SetLocals(st) ==
  /\ messages' = st.messages
  /\ currentMessage' = st.currentMessage
  /\ heap' = st.heap
  /\ linesProcessed' = st.linesProcessed
  /\ linesMatched' = st.linesMatched
  /\ encryptionWarningsFiltered' = st.encryptionWarningsFiltered

\* onFileUpload was not called.
NoUpload == [called |-> FALSE]

\* pendingFile = null
NoPendingFile == [isNull |-> TRUE]

(***************************************************************************)
(* The chats (src/components/ChatContainer.tsx)                            *)
(*                                                                         *)
(* chats is the list of the sidebar and chatData the Map from the id of a  *)
(* chat to its data, as the sequence of its entries in insertion order.    *)
(* The id of the default chat is 0, and the id chat-${Date.now()} of a     *)
(* chat made at time now is now.  The operators work on a record c that    *)
(* holds the state of the component.                                       *)
(***************************************************************************)

\* 'default-chat'
DefaultChatId == 0

\* activeChatId = null
NoChat == -1

\* An optional string that is neither undefined nor ''.
Truthy(opt) == opt # << >> /\ opt[1] # << >>

\* map.has(id), map.get(id), map.set(id, entry)
MapHas(m, id) == \E i \in 1..Len(m) : m[i].id = id

MapGet(m, id) == m[CHOOSE i \in 1..Len(m) : m[i].id = id]

MapSet(m, id, entry) ==
  IF MapHas(m, id)
  THEN [i \in 1..Len(m) |-> IF m[i].id = id THEN entry ELSE m[i]]
  ELSE Append(m, entry)

\* map.delete(id), and prev.filter((c) => c.id !== id)
WithoutId(entries, id) == SelectSeq(entries, LAMBDA e : e.id # id)

\* A chat of the list, and the data of a chat without an upload.
Chat(id, name, lastMessage) ==
  [id |-> id, name |-> name, lastMessage |-> lastMessage]

EmptyChatData(id, name) ==
  [id |-> id, name |-> name, messages |-> << >>, originalFile |-> << >>]

\* fileName.replace('.txt', ''): the first occurrence is removed.
RemoveFirstTxt(fileName) ==
  LET at == {i \in 1..(Len(fileName) - 3) :
               SubSeq(fileName, i, i + 3) = Chars(".txt")}
      k  == CHOOSE i \in at : \A j \in at : i <= j
  IN  IF at = {}
      THEN fileName
      ELSE SubSeq(fileName, 1, k - 1) \o SubSeq(fileName, k + 4, Len(fileName))

\* name.replace(/\.(zip|txt)$/i, '')
RemoveUploadExtension(name) ==
  IF /\ Len(name) >= 4
     /\ ToUpperCase(SubSeq(name, Len(name) - 3, Len(name)))
          \in {Chars(".ZIP"), Chars(".TXT")}
  THEN SubSeq(name, 1, Len(name) - 4)
  ELSE name

\* preferredChatName || (senders.length > 0 ? senders[0] : fileName.replace('.txt', ''))
UploadedChatName(preferredChatName, snd, fileName) ==
  IF Truthy(preferredChatName)
  THEN preferredChatName[1]
  ELSE IF snd # << >> THEN snd[1] ELSE RemoveFirstTxt(fileName)

\* chatMessages[chatMessages.length - 1]?.text || 'No messages'
LastMessageText(msgs) ==
  IF msgs = << >> \/ msgs[Len(msgs)].text = << >>
  THEN Chars("No messages")
  ELSE msgs[Len(msgs)].text

\* The data and the list entry of the chat after an upload.
UploadedInto(c, chatId, chatName, msgs, fileContent, fileName) ==
  [c EXCEPT
     !.chatData =
       MapSet(c.chatData, chatId,
              [(IF MapHas(c.chatData, chatId)
                THEN MapGet(c.chatData, chatId)
                ELSE EmptyChatData(chatId, chatName))
               EXCEPT !.name = chatName,
                      !.messages = msgs,
                      !.originalFile = << [content |-> fileContent,
                                           name |-> fileName] >>]),
     !.chats =
       [i \in 1..Len(c.chats) |->
          IF c.chats[i].id = chatId
          THEN Chat(chatId, chatName, LastMessageText(msgs))
          ELSE c.chats[i]]]

\* processFileUpload: an empty content raises an error that is caught, and
\* the state is left as it is.  The alerts are no part of the state.
processFileUpload(c, fileContent, chatId, fileName, preferredChatName) ==
  IF IsEmptyChatText(fileContent)
  THEN c
  ELSE LET parsedMessages == parseWhatsAppChat(fileContent).messages
           snd == extractSenders(parsedMessages)
       IN  UploadedInto(c, chatId,
                        UploadedChatName(preferredChatName, snd, fileName),
                        ChatMessages(parsedMessages, snd),
                        fileContent, fileName)

\* handleFileUpload: fileName || 'chat.txt'
handleFileUpload(c, fileContent, chatId, fileName, chatName) ==
  processFileUpload(c, fileContent, chatId,
                    IF fileName = << >> THEN Chars("chat.txt") ELSE fileName,
                    chatName)

\* chatName || file.name.replace(/\.(zip|txt)$/i, '') || 'New Chat'
InferredName(pf) ==
  IF Truthy(pf.chatName)
  THEN pf.chatName[1]
  ELSE IF RemoveUploadExtension(pf.file.name) # << >>
       THEN RemoveUploadExtension(pf.file.name)
       ELSE Chars("New Chat")

\* The effect on an external pending file with the confirm flag: a new chat
\* is made, put first, activated, and tied to the pending file.
pendingFileEffect(c, pf, newChatId) ==
  [c EXCEPT
     !.chats = << Chat(newChatId, InferredName(pf),
                       Chars("Chat file ready to upload...")) >> \o c.chats,
     !.chatData = MapSet(c.chatData, newChatId,
                         EmptyChatData(newChatId, InferredName(pf))),
     !.activeChatId = newChatId,
     !.internalPendingFile =
       [file |-> pf.file, content |-> pf.content, chatId |-> newChatId,
        chatName |-> << InferredName(pf) >>,
        prevActiveChatId |-> c.activeChatId],
     !.internalShowConfirmModal = TRUE]

\* internalPendingFile ?? (externalPendingFile ? {...externalPendingFile,
\* chatId: activeChatId || 'default-chat'} : null)
PendingFileOf(c, pf) ==
  IF c.internalPendingFile # NoPendingFile
  THEN c.internalPendingFile
  ELSE IF pf # NoPendingFile
       THEN [file |-> pf.file, content |-> pf.content,
             chatName |-> pf.chatName,
             chatId |-> IF c.activeChatId # NoChat
                        THEN c.activeChatId ELSE DefaultChatId]
       ELSE NoPendingFile

\* handleConfirmUpload; onFileProcessed is given by the page, so the
\* internal pending file is left as it is.
handleConfirmUpload(c, pf) ==
  IF PendingFileOf(c, pf) # NoPendingFile
  THEN processFileUpload(c, PendingFileOf(c, pf).content,
                         PendingFileOf(c, pf).chatId,
                         PendingFileOf(c, pf).file.name,
                         PendingFileOf(c, pf).chatName)
  ELSE c

\* The cancel that only closes the modal and forgets the pending file.
handleCancelUploadKeepsChat(c) ==
  [c EXCEPT !.internalShowConfirmModal = FALSE,
            !.internalPendingFile = NoPendingFile]

\* handleCancelUpload: the chat made for the pending file is removed and the
\* chat that was active before is active again.
handleCancelUpload(c) ==
  [(IF c.internalPendingFile # NoPendingFile
    THEN [c EXCEPT
            !.chatData = WithoutId(c.chatData, c.internalPendingFile.chatId),
            !.chats = WithoutId(c.chats, c.internalPendingFile.chatId),
            !.activeChatId = c.internalPendingFile.prevActiveChatId]
    ELSE c)
   EXCEPT !.internalShowConfirmModal = FALSE,
          !.internalPendingFile = NoPendingFile]

\* The state of the component, and its assignment.
Container ==
  [chats |-> chats, chatData |-> chatData, activeChatId |-> activeChatId,
   internalPendingFile |-> internalPendingFile,
   internalShowConfirmModal |-> internalShowConfirmModal]

SetContainer(c) ==
  /\ chats' = c.chats
  /\ chatData' = c.chatData
  /\ activeChatId' = c.activeChatId
  /\ internalPendingFile' = c.internalPendingFile
  /\ internalShowConfirmModal' = c.internalShowConfirmModal

\* The chat list, the data and the active chat.
ChatState == [chats |-> chats, chatData |-> chatData,
              activeChatId |-> activeChatId]

(***************************************************************************)
(* Actions                                                                 *)
(***************************************************************************)

\* The guard at the top of parseWhatsAppChat is taken.
EmptyInput ==
  /\ pc = "start"
  /\ IsEmptyChatText(chatText)
  /\ pc' = IF ReturnOnEmpty.threw THEN "threw" ELSE "done"
  /\ result' = ReturnOnEmpty.messages
  /\ UNCHANGED << chatText, lines, lineIdx, messages, currentMessage, heap,
                  linesProcessed, linesMatched, encryptionWarningsFiltered,
                  senders, parses, earlier, chatMessages,
                  fileVars >>

\* The arrays and counters kept from one call to the next.
SplitLinesKeepingLocals ==
  /\ pc = "start"
  /\ ~IsEmptyChatText(chatText)
  /\ lines' = Split(chatText)
  /\ lineIdx' = 1
  /\ pc' = "loop"
  /\ UNCHANGED << chatText, result, senders, parses, earlier, chatMessages,
                  messages,
                  currentMessage, heap, linesProcessed, linesMatched,
                  encryptionWarningsFiltered, fileVars >>

\* The text is split and the locals are initialised.
SplitLines ==
  /\ pc = "start"
  /\ ~IsEmptyChatText(chatText)
  /\ lines' = Split(chatText)
  /\ lineIdx' = 1
  /\ SetLocals(InitialLocals)
  /\ pc' = "loop"
  /\ UNCHANGED << chatText, result, senders, parses, earlier, chatMessages,
                  fileVars >>

\* The loop is at a line that takes the given branch.
AtLine(branch) ==
  /\ pc = "loop"
  /\ lineIdx <= Len(lines)
  /\ LineBranch(Locals, lines[lineIdx]) = branch

\* One iteration of the loop.
Iterate ==
  /\ SetLocals(ProcessLine(Locals, lines[lineIdx]))
  /\ lineIdx' = lineIdx + 1
  /\ UNCHANGED << chatText, pc, lines, result, senders, parses, earlier,
                  chatMessages, fileVars >>

\* A blank line is skipped.
SkipBlankLine ==
  /\ AtLine("blank")
  /\ Iterate

\* A header line: the previous message is pushed and a new one is current.
OpenMessage ==
  /\ AtLine("open")
  /\ Iterate

\* A header line whose text is a notice: the previous message is pushed and
\* stays current.
SkipEncryptionWarning ==
  /\ AtLine("notice")
  /\ Iterate

\* The error of parseDate leaving the call.
DateErrorUncaught == FALSE

\* The error of parseDate is caught by the catch clause of the loop body.
DateErrorCaught == TRUE

\* A header line whose date parseDate rejects: the previous message is
\* pushed and stays current, and the catch clause goes on with the loop.
CatchDateError ==
  /\ AtLine("dateError")
  /\ SetLocals(ProcessLine(Locals, lines[lineIdx]))
  /\ lineIdx' = lineIdx + 1
  /\ pc' = IF DateErrorCaught THEN pc ELSE "threw"
  /\ UNCHANGED << chatText, lines, result, senders, parses, earlier,
                  chatMessages, fileVars >>

\* A line that is no header is appended to the current message.
AppendContinuation ==
  /\ AtLine("continuation")
  /\ Iterate

\* A line that is no header and has no message to go to, or nothing left
\* after cleaning.
DiscardLine ==
  /\ AtLine("discard")
  /\ Iterate

\* The loop is over: the last message is added and the array is returned.
ReturnMessages ==
  /\ pc = "loop"
  /\ lineIdx > Len(lines)
  /\ SetLocals(Flush(Locals))
  /\ result' = Returned(Flush(Locals))
  /\ pc' = "done"
  /\ UNCHANGED << chatText, lines, lineIdx, senders, parses, earlier,
                  chatMessages, fileVars >>

\* processFileUpload calls extractSenders on the parsed messages and converts
\* them to the messages of the chat.
ExtractSenders ==
  /\ pc = "done"
  /\ senders' = extractSenders(result)
  /\ chatMessages' = ChatMessages(result, extractSenders(result))
  /\ pc' = "extracted"
  /\ UNCHANGED << chatText, lines, lineIdx, messages, currentMessage, heap,
                  linesProcessed, linesMatched, encryptionWarningsFiltered,
                  result, parses, earlier, fileVars >>

Next ==
  \/ EmptyInput
  \/ SplitLines
  \/ SkipBlankLine
  \/ OpenMessage
  \/ SkipEncryptionWarning
  \/ CatchDateError
  \/ AppendContinuation
  \/ DiscardLine
  \/ ReturnMessages
  \/ ExtractSenders

\* The number of times the same file is processed again.
MaxParses == 2

\* processFileUpload is called again with the same content: what the
\* earlier call returned is kept for comparison, and whatever the earlier
\* call left behind is still there when the new call starts.
ParseAgain ==
  /\ pc = "extracted"
  /\ parses < MaxParses
  /\ parses' = parses + 1
  /\ earlier' = [result |-> result, senders |-> senders]
  /\ pc' = "start"
  /\ UNCHANGED << chatText, lines, lineIdx, messages, currentMessage, heap,
                  linesProcessed, linesMatched, encryptionWarningsFiltered,
                  result, senders, chatMessages, fileVars >>

NextAgain ==
  \/ Next
  \/ ParseAgain

(***************************************************************************)
(* The upload button (FileUpload.handleFileSelect) and the page            *)
(* (Home.handleDrop)                                                       *)
(*                                                                         *)
(* A File is its name, the text file.text() gives, whether loadAsync       *)
(* accepts it as an archive, and the listing of the archive.  An optional  *)
(* chatName is << >> when undefined and << name >> otherwise.              *)
(***************************************************************************)

IsZipName(file) == EndsWith(file.name, Chars(".zip"))

IsTxtName(file) == EndsWith(file.name, Chars(".txt"))

\* What handleFileSelect does with a file whose name ends in .zip, r being
\* what extractTxtFromZip gives.
SelectedZip(file, r) ==
  IF r.ok
  THEN [alert |-> << >>,
        upload |-> [called |-> TRUE, content |-> r.content,
                    fileName |-> r.fileName,
                    chatName |-> << extractPersonNameFromZip(file.name) >>]]
  ELSE [alert |-> Chars("Error reading file: ") \o r.message,
        upload |-> NoUpload]

\* handleFileSelect on the first selected file: the alert it shows and the
\* call of onFileUpload it makes.
SelectOutcome(file) ==
  IF ~IsTxtName(file) /\ ~IsZipName(file)
  THEN [alert |-> Chars("Please upload a .txt or .zip file (WhatsApp chat export)"),
        upload |-> NoUpload]
  ELSE IF IsZipName(file)
       THEN SelectedZip(file, extractTxtFromZip(file))
       ELSE [alert |-> << >>,
             upload |-> [called |-> TRUE, content |-> file.text,
                         fileName |-> file.name, chatName |-> << >>]]

\* The branch handleFileSelect takes.
SelectBranch(fs) ==
  IF fs = << >>
  THEN "none"
  ELSE IF ~IsTxtName(fs[1]) /\ ~IsZipName(fs[1])
       THEN "rejected"
       ELSE IF ~IsZipName(fs[1])
            THEN "txt"
            ELSE IF extractTxtFromZip(fs[1]).ok THEN "zip" ELSE "zipError"

\* The first file of a sequence, in a sequence of at most one.
First(fs) == IF fs = << >> THEN << >> ELSE << fs[1] >>

\* files.find(file => file.name.endsWith('.zip'))
FindZipFile(fs) == First(SelectSeq(fs, IsZipName))

\* files.find(file => file.name.endsWith('.txt'))
FindTxtFile(fs) == First(SelectSeq(fs, IsTxtName))

\* What handleDrop does with a dropped archive.
DroppedZip(zipFile, r) ==
  IF r.ok
  THEN [alert |-> << >>,
        pendingFile |-> [file |-> zipFile, content |-> r.content,
                         chatName |-> << extractPersonNameFromZip(zipFile.name) >>],
        showConfirmModal |-> TRUE]
  ELSE [alert |-> Chars("Error processing file: ") \o r.message,
        pendingFile |-> NoPendingFile,
        showConfirmModal |-> FALSE]

\* What handleDrop does with a dropped text file: pendingFile is set before
\* the content is looked at.
DroppedTxt(txtFile) ==
  [alert |-> IF Len(txtFile.text) = 0
             THEN Chars("Error processing file: File appears to be empty")
             ELSE << >>,
   pendingFile |-> [file |-> txtFile, content |-> txtFile.text,
                    chatName |-> << >>],
   showConfirmModal |-> Len(txtFile.text) # 0]

\* handleDrop, zipFile and txtFile being what the two finds give.
DropFound(zipFile, txtFile) ==
  IF zipFile = << >> /\ txtFile = << >>
  THEN [alert |-> Chars("Please drop a .zip or .txt file (WhatsApp chat export). ZIP files should contain a .txt file inside."),
        pendingFile |-> NoPendingFile,
        showConfirmModal |-> FALSE]
  ELSE IF zipFile # << >>
       THEN DroppedZip(zipFile[1], extractTxtFromZip(zipFile[1]))
       ELSE DroppedTxt(txtFile[1])

DropOutcome(fs) == DropFound(FindZipFile(fs), FindTxtFile(fs))

\* The branch handleDrop takes.
DropBranch(fs) ==
  IF FindZipFile(fs) # << >>
  THEN IF extractTxtFromZip(FindZipFile(fs)[1]).ok
       THEN "zip" ELSE "zipError"
  ELSE IF FindTxtFile(fs) = << >>
       THEN "rejected"
       ELSE IF Len(FindTxtFile(fs)[1].text) = 0
            THEN "emptyTxt" ELSE "txt"

\* The places where the page takes a file: at the start, and after the
\* modal was answered.
Ready == {"idle", "confirmed", "cancelled"}

\* A file was chosen with the upload button and the handler takes the given
\* branch.
AtSelect(branch) ==
  /\ uiPc \in Ready
  /\ SelectBranch(files) = branch

\* onFileUpload of the active chat: handleFileUpload with its id.
Uploaded(c, upload) ==
  IF upload.called
  THEN handleFileUpload(c, upload.content, c.activeChatId, upload.fileName,
                        upload.chatName)
  ELSE c

\* handleFileSelect on the first file of the selection.
Select ==
  /\ uiPc' = "selected"
  /\ alertMessage' = SelectOutcome(files[1]).alert
  /\ uploaded' = SelectOutcome(files[1]).upload
  /\ SetContainer(Uploaded(Container, SelectOutcome(files[1]).upload))
  /\ UNCHANGED << files, pendingFile, showConfirmModal, now, beforeDrop,
                  parserVars >>

\* No file was chosen: the handler returns at once.
SelectNoFile ==
  /\ AtSelect("none")
  /\ uiPc' = "selected"
  /\ UNCHANGED << files, alertMessage, uploaded, pendingFile,
                  showConfirmModal, chatVars, parserVars >>

\* The name ends neither in .txt nor in .zip.
SelectRejected ==
  /\ AtSelect("rejected")
  /\ Select

\* An archive with a text entry: its content is handed to onFileUpload.
SelectZip ==
  /\ AtSelect("zip")
  /\ Select

\* extractTxtFromZip throws; the error is shown.
SelectZipFails ==
  /\ AtSelect("zipError")
  /\ Select

\* A text file: its content is handed to onFileUpload.
SelectTxt ==
  /\ AtSelect("txt")
  /\ Select

\* Files were dropped on the page and the handler takes the given branch.
AtDrop(branch) ==
  /\ uiPc \in Ready
  /\ DropBranch(files) = branch

\* handleDrop on the dropped files.
Drop ==
  /\ uiPc' = "dropped"
  /\ alertMessage' = DropOutcome(files).alert
  /\ pendingFile' = DropOutcome(files).pendingFile
  /\ showConfirmModal' = DropOutcome(files).showConfirmModal
  /\ beforeDrop' = ChatState
  /\ UNCHANGED << files, uploaded, chats, chatData, activeChatId,
                  internalPendingFile, internalShowConfirmModal, now,
                  parserVars >>

\* No dropped file has a name that ends in .zip or .txt.
DropRejected ==
  /\ AtDrop("rejected")
  /\ Drop

\* A dropped archive with a text entry waits for confirmation.
DropZip ==
  /\ AtDrop("zip")
  /\ Drop

\* extractTxtFromZip throws on the dropped archive.
DropZipFails ==
  /\ AtDrop("zipError")
  /\ Drop

\* A dropped text file waits for confirmation.
DropTxt ==
  /\ AtDrop("txt")
  /\ Drop

\* A dropped text file without content: the error is shown.
DropEmptyTxt ==
  /\ AtDrop("emptyTxt")
  /\ Drop

NextFile ==
  \/ SelectNoFile
  \/ SelectRejected
  \/ SelectZip
  \/ SelectZipFails
  \/ SelectTxt
  \/ DropRejected
  \/ DropZip
  \/ DropZipFails
  \/ DropTxt
  \/ DropEmptyTxt

\* The number of chats made for dropped files.
MaxDrops == 2

\* The effect of ChatContainer on the pending file of the page, once the
\* page shows the modal: the clock gives the id of the new chat and has moved
\* on by the next drop.
PendingFileEffect ==
  /\ uiPc = "dropped"
  /\ pendingFile # NoPendingFile
  /\ showConfirmModal
  /\ now <= MaxDrops
  /\ SetContainer(pendingFileEffect(Container, pendingFile, now))
  /\ now' = now + 1
  /\ uiPc' = "confirming"
  /\ UNCHANGED << files, alertMessage, uploaded, pendingFile,
                  showConfirmModal, beforeDrop, parserVars >>

\* Confirm in the modal: handleConfirmUpload, then handleFileProcessed of
\* the page.
ConfirmUpload ==
  /\ uiPc = "confirming"
  /\ SetContainer(handleConfirmUpload(Container, pendingFile))
  /\ showConfirmModal' = FALSE
  /\ pendingFile' = NoPendingFile
  /\ uiPc' = "confirmed"
  /\ UNCHANGED << files, alertMessage, uploaded, now, beforeDrop,
                  parserVars >>

\* Cancel in the modal: handleCancelUpload, with handleCancelUpload of the
\* page as onCancelUpload.
CancelUpload ==
  /\ uiPc = "confirming"
  /\ SetContainer(handleCancelUpload(Container))
  /\ showConfirmModal' = FALSE
  /\ pendingFile' = NoPendingFile
  /\ uiPc' = "cancelled"
  /\ UNCHANGED << files, alertMessage, uploaded, now, beforeDrop,
                  parserVars >>

NextChat ==
  \/ NextFile
  \/ PendingFileEffect
  \/ ConfirmUpload
  \/ CancelUpload

(***************************************************************************)
(* Inputs                                                                  *)
(***************************************************************************)

RECURSIVE JoinLines(_)
\* The lines joined by line feeds.
JoinLines(ls) ==
  IF ls = << >>
  THEN << >>
  ELSE IF Len(ls) = 1
       THEN ls[1]
       ELSE ls[1] \o << "\n" >> \o JoinLines(Tail(ls))

\* The transcripts of at most n lines taken from pool.
Transcripts(pool, n) ==
  {JoinLines(ls) : ls \in UNION {[1..k -> pool] : k \in 0..n}}

\* Nothing was selected or dropped.
NoFiles ==
  /\ uiPc = "idle"
  /\ alertMessage = << >>
  /\ uploaded = NoUpload
  /\ pendingFile = NoPendingFile
  /\ showConfirmModal = FALSE

\* ChatContainer after its first effect: the default chat, active, and no
\* pending file.
DefaultChatOnly ==
  /\ chats = << Chat(DefaultChatId, Chars("New Chat"),
                     Chars("Start a conversation...")) >>
  /\ chatData = << EmptyChatData(DefaultChatId, Chars("New Chat")) >>
  /\ activeChatId = DefaultChatId
  /\ internalPendingFile = NoPendingFile
  /\ internalShowConfirmModal = FALSE
  /\ now = 1
  /\ beforeDrop = ChatState

\* No call has run yet: the arrays are empty and the counters are zero.
SetInitial ==
  /\ messages = << >>
  /\ currentMessage = Null
  /\ heap = << >>
  /\ linesProcessed = 0
  /\ linesMatched = 0
  /\ encryptionWarningsFiltered = 0

InitOn(texts) ==
  /\ files = << >>
  /\ NoFiles
  /\ DefaultChatOnly
  /\ chatText \in texts
  /\ pc = "start"
  /\ lines = << >>
  /\ lineIdx = 0
  /\ SetInitial
  /\ result = << >>
  /\ senders = << >>
  /\ chatMessages = << >>
  /\ parses = 0
  /\ earlier = [result |-> << >>, senders |-> << >>]

HeaderAlice == Chars("[01/02/2024, 8:00:16 AM] Alice: Hi")

HeaderBob == Chars("[01/02/2024, 8:01:00 PM] Bob: Hello")

HeaderNotice ==
  Chars("[01/02/2024, 7:59:00 AM] Bob: Messages and calls are end-to-end encrypted.")

\* Two spaces before the AM/PM marker.
HeaderTwoSpaces == Chars("[01/02/2024, 8:02:00  AM] Carl: Two")

\* Invisible characters before the bracket and inside the text.
HeaderMarked ==
  << "U+200E", "U+200F" >> \o Chars("[3/2/2024, 12:03:00 PM] Dan: ")
  \o << "U+200E" >> \o Chars("image") \o << "U+202C" >> \o Chars(" omitted")

\* An invisible character at the start of the sender.
HeaderMarkedSender ==
  Chars("[03/02/2024, 12:04:00 AM] ") \o << "U+200E" >> \o Chars("Eve: ok")

Continuation ==
  Chars(" How are") \o << "U+200E" >> \o Chars(" you? ")

ContinuationNotice == Chars("Only people in this chat can read them")

BlankSpaces == << " ", "\t" >>

BlankReturn == << "\r" >>

MaxLines == 3

MainPool ==
  {HeaderAlice, HeaderBob, HeaderNotice, HeaderTwoSpaces, HeaderMarked,
   HeaderMarkedSender, Continuation, BlankSpaces, BlankReturn}

Init == InitOn(Transcripts(MainPool, MaxLines))

Spec == Init /\ [][Next]_vars

\* The transcripts about notices: up to MaxNoticeLines lines.
MaxNoticeLines == 4

NoticePool ==
  {HeaderAlice, HeaderBob, HeaderNotice, HeaderTwoSpaces, Continuation,
   ContinuationNotice, BlankSpaces}

InitNotice == InitOn(Transcripts(NoticePool, MaxNoticeLines))

SpecNotice == InitNotice /\ [][Next]_vars

\* The transcripts about invisible marks: up to MaxMarkLines lines.
MaxMarkLines == 3

MarkPool ==
  {HeaderAlice, HeaderMarked, HeaderNotice, HeaderTwoSpaces, Continuation,
   BlankSpaces}

InitMark == InitOn(Transcripts(MarkPool, MaxMarkLines))

SpecMark == InitMark /\ [][Next]_vars

\* The decimal digits of n, at least width of them.
Decimal(n, width) ==
  IF n >= 10 \/ width >= 2
  THEN << Digits[(n \div 10) + 1], Digits[(n % 10) + 1] >>
  ELSE << Digits[n + 1] >>

\* A header line with the given time token.
TimeLine(h, width, mi, sec, period) ==
  Chars("[15/06/2024, ") \o Decimal(h, width) \o << ":" >> \o Decimal(mi, 2)
  \o << ":" >> \o Decimal(sec, 2) \o << " " >> \o Chars(period)
  \o Chars("] Zed: t")

ClockHours == 1..12

ClockMinutes == {0, 5, 59}

ClockSeconds == {0, 30}

TimeLines ==
  {TimeLine(h, w, mi, sec, period) :
     h \in ClockHours, w \in 1..2, mi \in ClockMinutes, sec \in ClockSeconds,
     period \in {"AM", "PM"}}

MaxDateLines == 2

DatePool ==
  {HeaderAlice, HeaderNotice, HeaderTwoSpaces, Continuation, BlankSpaces}

InitDate == InitOn(TimeLines \cup Transcripts(DatePool, MaxDateLines))

SpecDate == InitDate /\ [][Next]_vars

\* A text made of one invisible character.
HeaderInvisibleText ==
  Chars("[01/02/2024, 8:03:00 AM] Fay: ") \o << "U+200E" >>

\* A text made of invisible characters around a space.
HeaderInvisibleTexts ==
  Chars("[01/02/2024, 8:03:30 AM] Gus: ") \o << "U+200F", " ", "U+2066" >>

\* Only a space between the closing bracket and the colon.
HeaderBlankSender == Chars("[01/02/2024, 8:04:00 AM] : x")

\* The transcripts about the stored sender and text: up to MaxCleanLines
\* lines.
MaxCleanLines == 3

CleanPool ==
  {HeaderAlice, HeaderInvisibleText, HeaderInvisibleTexts, HeaderBlankSender,
   HeaderNotice, HeaderTwoSpaces, Continuation, BlankSpaces}

InitClean == InitOn(Transcripts(CleanPool, MaxCleanLines))

SpecClean == InitClean /\ [][Next]_vars

\* Fields far out of range.
HeaderFarDate == Chars("[99/99/9999, 99:99:99 PM] x: y")

\* A header with nothing after the colon.
HeaderNoText == Chars("[01/02/2024, 8:00:16 AM] Alice:")

\* Brackets and a colon out of place.
Brackets == Chars("]:[")

\* The transcripts with malformed lines: up to MaxTotalLines lines.
MaxTotalLines == 3

TotalPool ==
  {HeaderAlice, HeaderNotice, HeaderTwoSpaces, HeaderFarDate, HeaderNoText,
   Brackets, Continuation, BlankSpaces}

InitTotal == InitOn(Transcripts(TotalPool, MaxTotalLines))

SpecTotal == InitTotal /\ [][Next]_vars

\* The transcripts parsed more than once: up to MaxAgainLines lines.
MaxAgainLines == 2

AgainPool ==
  {HeaderAlice, HeaderBob, HeaderNotice, HeaderTwoSpaces, Continuation,
   BlankSpaces}

InitAgain == InitOn(Transcripts(AgainPool, MaxAgainLines))

SpecAgain == InitAgain /\ [][NextAgain]_vars

\* The entries of the archives.
EntryChat == [name |-> Chars("_chat.txt"), dir |-> FALSE, content |-> Chars("Hi")]

EntryEmpty == [name |-> Chars("notes.txt"), dir |-> FALSE, content |-> << >>]

EntryUpperCase == [name |-> Chars("CHAT.TXT"), dir |-> FALSE, content |-> Chars("Yo")]

EntryFolder == [name |-> Chars("media.txt/"), dir |-> TRUE, content |-> << >>]

EntryPhoto == [name |-> Chars("photo.jpg"), dir |-> FALSE, content |-> Chars("JFIF")]

EntryPool == {EntryChat, EntryEmpty, EntryUpperCase, EntryFolder, EntryPhoto}

\* The listings of at most n entries with distinct names.
Listings(n) ==
  {l \in UNION {[1..k -> EntryPool] : k \in 0..n} :
     \A i, j \in 1..Len(l) : i # j => l[i].name # l[j].name}

Archive(name, listing) ==
  [name |-> name, text |-> Chars("PK"), isArchive |-> TRUE, files |-> listing]

TextFile(name, text) ==
  [name |-> name, text |-> text, isArchive |-> FALSE, files |-> << >>]

ArchiveNames ==
  {Chars("WhatsApp Chat - Bob.zip"), Chars("whatsapp chat -  Al .zip"),
   Chars("WhatsApp Chat - .zip"), Chars("notes.zip"), Chars("Export.ZIP")}

TextFileNames ==
  {Chars("chat.txt"), Chars("CHAT.TXT"), Chars("photo.jpg"), Chars("fake.zip")}

MaxEntries == 2

\* One file chosen with the button: every archive name with every listing,
\* and every text file with and without content.
SelectInputs ==
  {<< Archive(n, l) >> : n \in ArchiveNames, l \in Listings(MaxEntries)}
  \cup {<< TextFile(n, t) >> : n \in TextFileNames, t \in {<< >>, Chars("Hi")}}

MaxFiles == 2

DropPool ==
  {Archive(Chars("WhatsApp Chat - Bob.zip"), << EntryPhoto, EntryChat >>),
   Archive(Chars("Export.ZIP"), << EntryChat >>),
   TextFile(Chars("chat.txt"), Chars("Hi")),
   TextFile(Chars("empty.txt"), << >>),
   TextFile(Chars("CHAT.TXT"), Chars("Hi")),
   TextFile(Chars("photo.jpg"), Chars("JFIF"))}

\* Up to MaxFiles files dropped together.
DropInputs == UNION {[1..k -> DropPool] : k \in 0..MaxFiles}

InitFile ==
  /\ files \in SelectInputs \cup DropInputs
  /\ NoFiles
  /\ DefaultChatOnly
  /\ chatText = << >>
  /\ pc = "start"
  /\ lines = << >>
  /\ lineIdx = 0
  /\ SetInitial
  /\ result = << >>
  /\ senders = << >>
  /\ chatMessages = << >>
  /\ parses = 0
  /\ earlier = [result |-> << >>, senders |-> << >>]

SpecFile == InitFile /\ [][NextFile]_vars

SpecChat == InitFile /\ [][NextChat]_vars

\* The transcripts with blank lines and lines that belong to no message: up
\* to MaxLooseLines lines.
MaxLooseLines == 3

LoosePool ==
  {HeaderAlice, HeaderNotice, HeaderTwoSpaces, Continuation, Brackets,
   BlankSpaces}

InitLoose == InitOn(Transcripts(LoosePool, MaxLooseLines))

SpecLoose == InitLoose /\ [][Next]_vars

\* Lines in other date conventions: day first with a dash and no brackets,
\* year first in brackets, and a 24-hour time with no AM/PM marker.
HeaderUnbracketed == Chars("01/11/2025, 10:30 - John: Hello there!")

HeaderYearFirst == Chars("[2022/7/21 05:11:12] Eric Gao: Hi")

Header24Hour == Chars("[01/02/2024, 20:00:16] Alice: Hi")

OtherFormatLines == {HeaderUnbracketed, HeaderYearFirst, Header24Hour}

\* The transcripts with lines in other date conventions: up to MaxFormatLines
\* lines.
MaxFormatLines == 3

FormatPool ==
  {HeaderAlice, HeaderNotice, HeaderTwoSpaces, BlankSpaces}
    \cup OtherFormatLines

InitFormat == InitOn(Transcripts(FormatPool, MaxFormatLines))

SpecFormat == InitFormat /\ [][Next]_vars

(***************************************************************************)
(* Properties                                                              *)
(***************************************************************************)

\* The kinds of line, as the header pattern, parseDate and the notice
\* patterns tell them apart.
IsHeaderLine(line) ==
  LineBranch(InitialLocals, line) \in {"open", "notice", "dateError"}

IsOpeningLine(line) == LineBranch(InitialLocals, line) = "open"

IsNoticeLine(line) == LineBranch(InitialLocals, line) = "notice"

IsPlainLine(line) == Trim(line) # << >> /\ ~IsHeaderLine(line)

\* The sender and the text a header line carries.
HeaderSender(line) == Trim(MatchHeader(CleanLine(line)).sender)

HeaderText(line) ==
  Trim(RemoveAll(MatchHeader(CleanLine(line)).text, InvisibleChars))

Finished == pc \in {"done", "extracted"}

\* C1: a transcript made only of header lines whose bodies are not notices
\* yields one message per header line, the i-th with the sender and the text
\* of the i-th line.
C1_OneMessagePerHeaderLine ==
  (/\ Finished
   /\ lines # << >>
   /\ \A i \in 1..Len(lines) :
        IsHeaderLine(lines[i]) /\ ~IsNoticeLine(lines[i]))
  => /\ Len(result) = Len(lines)
     /\ \A i \in 1..Len(lines) :
          /\ result[i].sender = HeaderSender(lines[i])
          /\ result[i].text = HeaderText(lines[i])

\* The line of the k-th message object: the k-th line that opens a message.
OpeningLineOf(ls, k) ==
  CHOOSE i \in 1..Len(ls) :
    /\ IsOpeningLine(ls[i])
    /\ Cardinality({j \in 1..i : IsOpeningLine(ls[j])}) = k

RECURSIVE ContinuationText(_, _)
\* The continuation lines from line j up to the next header line that starts
\* a message, normalised, each after a line feed.
ContinuationText(ls, j) ==
  IF j > Len(ls) \/ IsOpeningLine(ls[j]) \/ IsNoticeLine(ls[j])
  THEN << >>
  ELSE LET piece == IF IsPlainLine(ls[j])
                    THEN Trim(RemoveAll(ls[j], InvisibleChars))
                    ELSE << >>
       IN  (IF piece = << >> THEN << >> ELSE << "\n" >> \o piece)
           \o ContinuationText(ls, j + 1)

\* C2: the text of an emitted message whose header line is followed
\* immediately by continuation lines is the header's text followed by its
\* continuation lines in order, one line feed between consecutive pieces.
C2_TextIsHeaderThenContinuations ==
  Finished =>
    \A k \in 1..Len(heap) :
      LET i == OpeningLineOf(lines, k)
      IN  (/\ i < Len(lines)
           /\ IsPlainLine(lines[i + 1])
           /\ \E n \in 1..Len(messages) : messages[n] = k)
          => heap[k].text = HeaderText(lines[i]) \o ContinuationText(lines, i + 1)

\* C3: no returned message has a text that matches a notice pattern.
C3_NoNoticeReturned ==
  Finished => \A i \in 1..Len(result) : ~isEncryptionWarning(result[i].text)

\* C4: for a transcript of header lines, the number of messages is the
\* number of header lines whose body is not a notice.
C4_NoticesNotCounted ==
  (/\ Finished
   /\ lines # << >>
   /\ \A i \in 1..Len(lines) :
        IsOpeningLine(lines[i]) \/ IsNoticeLine(lines[i]))
  => Len(result) = Cardinality({i \in 1..Len(lines) : IsOpeningLine(lines[i])})

\* C5: a notice (its header line and the lines after it up to the next
\* header) between two valid messages changes the text of neither: both are
\* as in the parse of the transcript without the notice.
C5_NoticeLeavesNeighbours ==
  Finished =>
    \A i \in 2..Len(lines) : \A j \in i..(Len(lines) - 1) :
      (/\ IsNoticeLine(lines[i])
       /\ \A n \in (i + 1)..j : ~IsHeaderLine(lines[n])
       /\ IsOpeningLine(lines[j + 1])
       /\ IsOpeningLine(lines[1])
       /\ \A n \in 1..(i - 1) : IsHeaderLine(lines[n]) => IsOpeningLine(lines[n]))
      => LET without == FinalLocals(JoinLines(SubSeq(lines, 1, i - 1)
                                    \o SubSeq(lines, j + 1, Len(lines))))
             before == Cardinality({n \in 1..(i - 1) : IsOpeningLine(lines[n])})
         IN  /\ heap[before].text = without.heap[before].text
             /\ heap[before + 1].text = without.heap[before + 1].text

\* C6: extractSenders returns every distinct sender of the messages exactly
\* once, in ascending order.
C6_SendersSortedDistinct ==
  pc = "extracted" =>
    /\ {senders[i] : i \in 1..Len(senders)}
         = {result[i].sender : i \in 1..Len(result)}
    /\ \A i \in 1..(Len(senders) - 1) : StringLess(senders[i], senders[i + 1])

\* Bob speaks first and Alice is first in the directory.
C6_Witness ==
  /\ pc = "extracted"
  /\ Len(result) >= 2
  /\ result[1].sender = Chars("Bob")
  /\ senders = << Chars("Alice"), Chars("Bob") >>

\* C7: 12 AM is hour 0, 12 PM is hour 12, h AM is h and h PM is h + 12 for
\* h in 1..11; minutes and seconds are the written ones.
C7_TwelveHourClock ==
  Finished =>
    \A h \in ClockHours, w \in 1..2, mi \in ClockMinutes, sec \in ClockSeconds,
       period \in {"AM", "PM"} :
      chatText = TimeLine(h, w, mi, sec, period)
      => /\ Len(result) = 1
         /\ result[1].date.hours =
              IF period = "AM"
              THEN (IF h = 12 THEN 0 ELSE h)
              ELSE (IF h = 12 THEN 12 ELSE h + 12)
         /\ result[1].date.minutes = mi
         /\ result[1].date.seconds = sec

\* 12:05:30 PM has been parsed.
C7_Witness ==
  /\ pc = "done"
  /\ chatText = TimeLine(12, 2, 5, 30, "PM")
  /\ Len(result) = 1
  /\ result[1].date.hours = 12

IsWhiteSpaceOnly(text) == \A i \in 1..Len(text) : text[i] \in WhiteSpace

\* C8: for the empty string and for a string of white space the call raises
\* no error and returns the empty sequence.
C8_EmptyInputReturnsNothing ==
  IsWhiteSpaceOnly(chatText) =>
    /\ pc # "threw"
    /\ Finished => result = << >>

\* A text of blanks, a tab, a line feed and a carriage return was parsed.
C8_Witness ==
  /\ pc = "done"
  /\ chatText = BlankSpaces \o << "\n" >> \o BlankReturn
  /\ result = << >>

\* The prefixes of invisible marks put before the bracket: the two marks,
\* the ends of the two ranges of the class, and two marks together.
MarkPrefixes ==
  {<< "U+200E" >>, << "U+200F" >>, << "U+202A" >>, << "U+202E" >>,
   << "U+2066" >>, << "U+2069" >>, << "U+200F", "U+200E" >>}

\* The line with the marks put right before its opening bracket.
MarkBeforeBracket(line, marks) ==
  LET b == CHOOSE i \in 1..Len(line) :
             line[i] = "[" /\ \A j \in 1..(i - 1) : line[j] # "["
  IN  SubSeq(line, 1, b - 1) \o marks \o SubSeq(line, b, Len(line))

\* C9: a header line with invisible marks before its bracket is still a
\* header, and the transcript parses to the same messages with the marks as
\* without them.
C9_MarksBeforeBracketIgnored ==
  (pc = "done" /\ lines # << >>) =>
    \A i \in 1..Len(lines) : \A marks \in MarkPrefixes :
      IsHeaderLine(lines[i])
      => LET marked == MarkBeforeBracket(lines[i], marks)
         IN  /\ IsHeaderLine(marked)
             /\ parseWhatsAppChat(JoinLines([lines EXCEPT ![i] = marked])).messages
                  = result

\* A transcript with a marked header line was parsed to a message.
C9_Witness ==
  /\ pc = "done"
  /\ \E i \in 1..Len(lines) : lines[i] = HeaderMarked
  /\ \E i \in 1..Len(result) : result[i].sender = Chars("Dan")

\* C10: no sender and no text of a returned message contains an invisible
\* character.
C10_NoInvisibleStored ==
  Finished =>
    \A i \in 1..Len(result) :
      /\ \A n \in 1..Len(result[i].sender) : result[i].sender[n] \notin InvisibleChars
      /\ \A n \in 1..Len(result[i].text) : result[i].text[n] \notin InvisibleChars

\* The date a header line carries.
HeaderDate(line) == ParseDate(DateTimeStr(MatchHeader(CleanLine(line)))).date

\* The returned message is the one the line opens, by sender and date.
OpenedBy(message, line) ==
  /\ IsOpeningLine(line)
  /\ message.sender = HeaderSender(line)
  /\ message.date = HeaderDate(line)

\* C11: the returned messages are in the order of the header lines that
\* opened them, whatever their dates: going through the returned array, the
\* opening lines never go back in the transcript.
C11_OrderOfOpeningLines ==
  Finished =>
    \E f \in [1..Len(result) -> 1..Len(lines)] :
      /\ \A n \in 1..Len(result) : OpenedBy(result[n], lines[f[n]])
      /\ \A n \in 1..(Len(result) - 1) : f[n] <= f[n + 1]

\* The first returned message is later in time than the second.
C11_Witness ==
  /\ pc = "done"
  /\ Len(result) = 2
  /\ result[1].sender = Chars("Bob")
  /\ result[2].sender = Chars("Alice")
  /\ DateBefore(result[2].date, result[1].date)

\* The text the header pattern captures on a line.
CapturedText(line) == MatchHeader(CleanLine(line)).text

\* C12: every returned message has a text that is not empty, and a message
\* whose captured text is empty once cleaned starts with the captured text
\* itself.
C12_TextNeverEmpty ==
  Finished =>
    /\ \A n \in 1..Len(result) : result[n].text # << >>
    /\ \A n \in 1..Len(messages) :
         LET captured == CapturedText(lines[OpeningLineOf(lines, messages[n])])
         IN  CleanText(captured) = << >>
             => /\ Len(result[n].text) >= Len(captured)
                /\ SubSeq(result[n].text, 1, Len(captured)) = captured

\* A message whose text is the one invisible character of its header line.
C12_Witness ==
  /\ pc = "done"
  /\ \E n \in 1..Len(result) :
       /\ result[n].sender = Chars("Fay")
       /\ result[n].text = << "U+200E" >>

\* C13: every returned message has a sender that is not empty and neither
\* starts nor ends with white space.
C13_SenderNonEmptyTrimmed ==
  Finished =>
    \A n \in 1..Len(result) :
      /\ result[n].sender # << >>
      /\ result[n].sender[1] \notin WhiteSpace
      /\ result[n].sender[Len(result[n].sender)] \notin WhiteSpace

LoopBranches ==
  {"blank", "open", "notice", "dateError", "continuation", "discard"}

\* The call has not raised, the loop is within the lines, and the line it is
\* at takes one of the branches of the loop body.
NotRaisedNorStuck ==
  /\ pc # "threw"
  /\ pc = "loop" =>
       /\ lineIdx \in 1..(Len(lines) + 1)
       /\ lineIdx <= Len(lines)
            => LineBranch(Locals, lines[lineIdx]) \in LoopBranches

\* A step of the loop goes to the next line, or returns after the last one.
LoopAdvances ==
  pc = "loop" =>
    \/ lineIdx <= Len(lines) /\ lineIdx' = lineIdx + 1 /\ pc' = "loop"
    \/ lineIdx > Len(lines) /\ pc' = "done"

\* C14: the call never raises and always returns: every step of the loop
\* takes a branch that goes one line further without raising, and after the
\* last line the call returns.
C14_Total == []NotRaisedNorStuck /\ [][LoopAdvances]_vars

\* A call whose lines had a date that parseDate rejects and a header with
\* no text has returned.
C14_Witness ==
  /\ pc = "done"
  /\ lines = << HeaderTwoSpaces, HeaderNoText, HeaderFarDate >>
  /\ linesProcessed = 3
  /\ Len(result) = 1

\* C15: a later parse of the same transcript returns the same messages and
\* the same senders as the earlier one.
C15_SameResultAgain ==
  (parses >= 1 /\ pc = "extracted") =>
    /\ result = earlier.result
    /\ senders = earlier.senders

\* A transcript of two messages has been parsed twice.
C15_Witness ==
  /\ parses >= 1
  /\ pc = "extracted"
  /\ Len(result) = 2
  /\ Len(earlier.result) = 2
  /\ senders = << Chars("Alice"), Chars("Bob") >>

\* The places in a listing of the entries that are no directory and have a
\* name that ends in .txt.
TextEntries(listing) ==
  {i \in 1..Len(listing) :
     EndsWith(listing[i].name, Chars(".txt")) /\ ~listing[i].dir}

FirstOf(places) == CHOOSE i \in places : \A j \in places : i <= j

StartsWith(s, prefix) ==
  Len(s) >= Len(prefix) /\ SubSeq(s, 1, Len(prefix)) = prefix

\* An archive was chosen with the upload button and the handler is done.
ArchiveSelected ==
  /\ uiPc = "selected"
  /\ files # << >>
  /\ IsZipName(files[1])
  /\ files[1].isArchive

\* C16: the extraction gives the content and the name of the first entry of
\* the listing that is no directory and has a name ending in .txt; it fails
\* when there is none and when that entry's content has length zero, so
\* that a content handed on is never empty.
C16_FirstTextEntry ==
  ArchiveSelected =>
    LET listing == files[1].files
        places == TextEntries(listing)
    IN  IF places = {}
        THEN /\ ~uploaded.called
             /\ StartsWith(alertMessage,
                           Chars("Error reading file: No .txt file found"))
        ELSE IF listing[FirstOf(places)].content = << >>
             THEN /\ ~uploaded.called
                  /\ alertMessage
                       = Chars("Error reading file: TXT file appears to be empty")
             ELSE /\ uploaded.called
                  /\ uploaded.content = listing[FirstOf(places)].content
                  /\ uploaded.content # << >>
                  /\ uploaded.fileName = listing[FirstOf(places)].name
                  /\ alertMessage = << >>

\* Of two text entries the first was extracted, the second being empty.
C16_Witness ==
  /\ ArchiveSelected
  /\ files[1].files = << EntryChat, EntryEmpty >>
  /\ uploaded.called
  /\ uploaded.fileName = Chars("_chat.txt")
  /\ uploaded.content = Chars("Hi")

ToLowerChar(c) ==
  IF \E i \in 1..26 : UpperLetters[i] = c
  THEN LowerLetters[CHOOSE i \in 1..26 : UpperLetters[i] = c]
  ELSE c

\* The name with a final .txt or .zip, in any letter case, in lower case.
LowerSuffix(name) ==
  IF /\ Len(name) >= 4
     /\ ToUpperCase(SubSeq(name, Len(name) - 3, Len(name)))
          \in {Chars(".TXT"), Chars(".ZIP")}
  THEN [i \in 1..Len(name) |->
          IF i > Len(name) - 4 THEN ToLowerChar(name[i]) ELSE name[i]]
  ELSE name

\* The file with its suffix, and the suffixes of its entries, in lower case.
LowerSuffixes(file) ==
  [file EXCEPT
     !.name = LowerSuffix(@),
     !.files = [i \in 1..Len(@) |-> [@[i] EXCEPT !.name = LowerSuffix(@)]]]

\* C17: a file chosen or dropped is accepted and routed as the same file
\* with its .txt or .zip suffix, and those of its archive entries, written
\* in lower case: the same content goes the same way.
C17_SuffixInAnyCase ==
  /\ (uiPc = "selected" /\ files # << >>) =>
       LET lower == SelectOutcome(LowerSuffixes(files[1])).upload
       IN  /\ uploaded.called = lower.called
           /\ uploaded.called => uploaded.content = lower.content
  /\ uiPc = "dropped" =>
       LET lower == DropOutcome([i \in 1..Len(files) |-> LowerSuffixes(files[i])])
       IN  /\ showConfirmModal = lower.showConfirmModal
           /\ showConfirmModal => pendingFile.content = lower.pendingFile.content

\* The file name without its last four characters.
Stem(name) == SubSeq(name, 1, Len(name) - 4)

\* The label given with an uploaded archive.
Label == uploaded.chatName[1]

\* An archive was uploaded with the button; its name ends in .zip.
ArchiveUploaded ==
  /\ uiPc = "selected"
  /\ uploaded.called
  /\ uploaded.chatName # << >>

C19_DateErrorLeavesState ==
  [][AtLine("dateError") => UNCHANGED << messages, currentMessage, heap >>]_vars

\* C20: a message is returned exactly when its full text is no notice,
\* whether a later header line closed it or the end of the input did.
C20_FilterAtCloseAndFlush ==
  Finished =>
    \A k \in 1..Len(heap) :
      (\E n \in 1..Len(messages) : messages[n] = k)
        <=> ~isEncryptionWarning(heap[k].text)

\* C21: a message that is in the returned array is not changed by any later
\* line: every step of the loop leaves the objects that messages refers to
\* as they are.
C21_ClosedMessagesImmutable ==
  [][pc = "loop" =>
       \A n \in 1..Len(messages) : heap'[messages[n]] = heap[messages[n]]]_vars

\* The place of the first closing bracket of a line.
ClosingBracket(line) ==
  CHOOSE i \in 1..Len(line) :
    line[i] = "]" /\ \A j \in 1..(i - 1) : line[j] # "]"

\* The header line with the letters of its AM/PM marker from the given one
\* on (1: both, 2: the M only) in lower case.
MarkerLowered(line, from) ==
  [i \in 1..Len(line) |->
     IF i \in (ClosingBracket(line) - 3 + from)..(ClosingBracket(line) - 1)
     THEN ToLowerChar(line[i])
     ELSE line[i]]

\* C22: a header line with its marker written am, pm, Am or Pm opens the
\* same message as with AM or PM: the transcript parses to the same
\* messages.
C22_MarkerInAnyCase ==
  (pc = "done" /\ lines # << >>) =>
    \A i \in 1..Len(lines) : \A from \in 1..2 :
      IsOpeningLine(lines[i])
      => parseWhatsAppChat(
           JoinLines([lines EXCEPT ![i] = MarkerLowered(lines[i], from)])).messages
           = result

\* The least member of a non-empty set of numbers.
Least(S) == CHOOSE k \in S : \A j \in S : k <= j

\* The places of an opening header line after which the pattern allows white
\* space: the comma, the seconds, the closing bracket and the colon that ends
\* the sender.
SpacePlaces(line) ==
  LET b    == ClosingBracket(line)
      from == Least({k \in (b + 1)..Len(line) : line[k] \notin WhiteSpace})
  IN  [comma   |-> Least({k \in 1..Len(line) : line[k] = ","}),
       seconds |-> b - 3,
       bracket |-> b,
       colon   |-> Least({k \in (from + 1)..Len(line) : line[k] = ":"})]

\* The line with one more space after the given place.
WithSpaceAfter(line, at) ==
  SubSeq(line, 1, at) \o << " " >> \o SubSeq(line, at + 1, Len(line))

\* The transcript parses to the same messages with one more space at a place
\* of one of its opening header lines.
SameWithSpaceAt(place) ==
  (pc = "done" /\ lines # << >>) =>
    \A i \in 1..Len(lines) :
      IsOpeningLine(lines[i])
      => parseWhatsAppChat(
           JoinLines([lines EXCEPT
                        ![i] = WithSpaceAfter(lines[i],
                                              SpacePlaces(lines[i])[place])])).messages
           = result

\* C23: a header line with additional spaces after the comma, between the
\* seconds and the AM/PM marker, after the closing bracket or after the
\* sender's colon opens the same message as without them.
C23_ExtraSpacesTolerated ==
  \A place \in {"comma", "seconds", "bracket", "colon"} : SameWithSpaceAt(place)

\* The blank lines: empty, or white space only.
BlankLines == {<< >>, BlankSpaces, BlankReturn}

\* The lines with one more line after the first i of them.
InsertAt(ls, i, line) == SubSeq(ls, 1, i) \o << line >> \o SubSeq(ls, i + 1, Len(ls))

\* C24: a blank line causes no transition: the transcript with a blank line
\* inserted at any place, between a header and its continuation lines
\* included, parses to the same messages.
C24_BlankLinesIgnored ==
  pc = "done" =>
    \A i \in 0..Len(Split(chatText)) : \A blank \in BlankLines :
      parseWhatsAppChat(JoinLines(InsertAt(Split(chatText), i, blank))).messages
        = result

\* A transcript with a blank line between a header and its continuation line
\* has returned one message that holds both lines.
C24_Witness ==
  /\ pc = "done"
  /\ Len(lines) = 3
  /\ IsOpeningLine(lines[1])
  /\ Trim(lines[2]) = << >>
  /\ IsPlainLine(lines[3])
  /\ Len(result) = 1
  /\ \E k \in 1..Len(result[1].text) : result[1].text[k] = "\n"

\* The loop is at a line that is no header and not blank, and no message is
\* open.
PlainLineWhileIdle ==
  /\ pc = "loop"
  /\ lineIdx <= Len(lines)
  /\ currentMessage = Null
  /\ IsPlainLine(lines[lineIdx])

\* The step leaves the output, the objects and the idle state as they are and
\* goes on with the next line.
StaysIdle ==
  /\ messages' = messages
  /\ heap' = heap
  /\ currentMessage' = Null
  /\ lineIdx' = lineIdx + 1
  /\ pc' = "loop"

\* A transcript that starts with such a line returns what it returns without
\* the line.
FirstLineDropped ==
  (pc = "done" /\ lines # << >> /\ IsPlainLine(lines[1]))
  => result = parseWhatsAppChat(JoinLines(Tail(lines))).messages

\* C25: a non-blank line that is no header and arrives while no message is
\* open is discarded: it opens no message, is in no returned text, and no
\* message is open after it.
C25_PlainLineWhileIdleDiscarded ==
  []FirstLineDropped /\ [][PlainLineWhileIdle => StaysIdle]_vars

\* A transcript whose first line belongs to no message and whose second line
\* is a header has returned the one message of the header.
C25_Witness ==
  /\ pc = "done"
  /\ Len(lines) = 2
  /\ IsPlainLine(lines[1])
  /\ IsOpeningLine(lines[2])
  /\ Len(result) = 1
  /\ result[1].text = HeaderText(lines[2])

\* The numbers written in the brackets of a header line.
WrittenFields(line) ==
  LET c   == CleanLine(line)
      pos == Scan(c, 1, HeaderPrefix)
  IN  [day    |-> ParseInt(SubSeq(c, pos[2], pos[3] - 1)),
       month  |-> ParseInt(SubSeq(c, pos[4], pos[5] - 1)),
       year   |-> ParseInt(SubSeq(c, pos[6], pos[7] - 1)),
       minute |-> ParseInt(SubSeq(c, pos[11], pos[12] - 1)),
       second |-> ParseInt(SubSeq(c, pos[13], pos[14] - 1))]

\* The date has the fields as they are written; its month counts from 0.
DateAsWritten(date, written) ==
  /\ date.year = written.year
  /\ date.month + 1 = written.month
  /\ date.date = written.day
  /\ date.hours \in 0..23
  /\ date.minutes = written.minute
  /\ date.seconds = written.second

\* C26: the timestamp of a message has the year, month, day, minute and
\* second written in the header line that opened it, and an hour from 0 to
\* 23: no accepted date or time resolves to another day or month.
C26_DateAsWritten ==
  pc = "done" =>
    \A i \in 1..Len(lines) :
      IsOpeningLine(lines[i])
      => \E h \in 1..Len(heap) :
           /\ heap[h].sender = HeaderSender(lines[i])
           /\ DateAsWritten(heap[h].date, WrittenFields(lines[i]))

\* C27: a message of the chat is marked as from the primary participant
\* exactly when its sender is the first of the senders in ascending order,
\* whoever speaks first.
C27_PrimaryIsFirstInDirectory ==
  pc = "extracted" =>
    /\ Len(chatMessages) = Len(result)
    /\ \A n \in 1..Len(chatMessages) :
         /\ chatMessages[n].sender = result[n].sender
         /\ chatMessages[n].isFromPrimary
              <=> \A k \in 1..Len(result) :
                    ~StringLess(result[k].sender, chatMessages[n].sender)

\* Bob speaks first and is not the primary participant; Alice is.
C27_Witness ==
  /\ pc = "extracted"
  /\ Len(chatMessages) >= 2
  /\ chatMessages[1].sender = Chars("Bob")
  /\ ~chatMessages[1].isFromPrimary
  /\ \E n \in 2..Len(chatMessages) :
       chatMessages[n].sender = Chars("Alice") /\ chatMessages[n].isFromPrimary

\* The loop is at a line in another date convention.
AtOtherFormatLine ==
  /\ pc = "loop"
  /\ lineIdx <= Len(lines)
  /\ lines[lineIdx] \in OtherFormatLines

\* The step creates no object and leaves the output and the current message
\* where they are; the line is at the end of the text of the current message
\* when there is one, and nothing changes otherwise.
AppendedOrDiscarded ==
  /\ Len(heap') = Len(heap)
  /\ messages' = messages
  /\ currentMessage' = currentMessage
  /\ IF currentMessage # Null
     THEN heap' = [heap EXCEPT ![currentMessage].text =
                                 @ \o << "\n" >> \o Trim(lines[lineIdx])]
     ELSE heap' = heap

C29_AtMostOneMessagePerHeader ==
  pc = "done" =>
    /\ \A i, j \in 1..Len(messages) : messages[i] = messages[j] => i = j
    /\ Len(result) <= Cardinality({i \in 1..Len(lines) : IsHeaderLine(lines[i])})

\* C30: a drop followed by Cancel changes nothing: the chat list, the chat
\* data and the active chat are as they were before the drop, the modal is
\* closed, and neither the page nor the container has a pending file.
C30_DropThenCancelIsNoOp ==
  uiPc = "cancelled" =>
    /\ ChatState = beforeDrop
    /\ ~showConfirmModal
    /\ ~internalShowConfirmModal
    /\ pendingFile = NoPendingFile
    /\ internalPendingFile = NoPendingFile
    /\ PendingFileOf(Container, pendingFile) = NoPendingFile

\* A drop was cancelled after an earlier one was confirmed: the chat of the
\* earlier drop is still there and active.
C30_Witness ==
  /\ uiPc = "cancelled"
  /\ Len(chats) = 2
  /\ activeChatId = chats[1].id
  /\ activeChatId # DefaultChatId
  /\ chatData[2].originalFile # << >>
  /\ now = 3

====
